---- MODULE Spec2Model ----
(***************************************************************************)
(* Model of the hexagonal chess engine: board.py (Board), piece.py (Piece), *)
(* piece_moves.py (move generators, promote_pawn) and hex.py (Hex).         *)
(*                                                                          *)
(* A Hex is the tuple <<q, r, s>>.  The position map Board.board is a       *)
(* function whose DOMAIN is the set of keys of the Python dict; a key may   *)
(* be mapped to NoneVal, the model of Python's None.  board_keys is the     *)
(* sequence of those keys in the insertion order of the dict, the order in  *)
(* which Board.board.items() yields them.                                   *)
(***************************************************************************)
EXTENDS Integers, Sequences, FiniteSets, TLC

VARIABLES board, board_keys, king_positions, current_player, move_number,
          moves_history, move_cache, last_move, ret, nOk, nCalls

vars == <<board, board_keys, king_positions, current_player, move_number,
          moves_history, move_cache, last_move, ret, nOk, nCalls>>

(***************************************************************************)
(* Bounds of the exploration.                                               *)
(***************************************************************************)
MaxCalls == 4

(***************************************************************************)
(* hex.py                                                                   *)
(***************************************************************************)
BOARD_RADIUS == 5

Abs(x) == IF x < 0 THEN -x ELSE x

Max3(a, b, c) == IF a >= b /\ a >= c THEN a ELSE IF b >= c THEN b ELSE c

hex_directions ==
  << <<1, 0, -1>>, <<0, 1, -1>>, <<-1, 1, 0>>,
     <<-1, 0, 1>>, <<0, -1, 1>>, <<1, -1, 0>> >>

\* Python's hex_directions[i], i in 0..5
HexDir(i) == hex_directions[i + 1]

HexAdd(h, d) == <<h[1] + d[1], h[2] + d[2], h[3] + d[3]>>

(***************************************************************************)
(* piece.py                                                                 *)
(***************************************************************************)
NoneVal == [type |-> "None", color |-> "None", position |-> <<0, 0, 0>>,
            has_moved |-> FALSE]

Piece(t, c, p) == [type |-> t, color |-> c, position |-> p, has_moved |-> FALSE]

\* Piece.move mutates the piece in place and has no return statement: the
\* value of the call expression piece.move(new_position) is None.
PieceMove(piece, new_position) == NoneVal

Opponent(color) == IF color = "white" THEN "black" ELSE "white"

(***************************************************************************)
(* board.py: class constants                                                *)
(***************************************************************************)
PAWN_ATTACKS(color) ==
  IF color = "white" THEN {HexDir(0), HexDir(5)} ELSE {HexDir(3), HexDir(4)}

BISHOP_DIRECTIONS ==
  { HexAdd(HexDir(i), HexDir((i + 1) % 6)) : i \in 0..5 }

KNIGHT_PATTERNS ==
  { << <<1, 0, -1>>, <<0, 1, -1>> >>, << <<1, 0, -1>>, <<1, -1, 0>> >>,
    << <<0, 1, -1>>, <<-1, 1, 0>> >>, << <<0, 1, -1>>, <<1, 0, -1>> >>,
    << <<-1, 1, 0>>, <<-1, 0, 1>> >>, << <<-1, 1, 0>>, <<0, 1, -1>> >>,
    << <<-1, 0, 1>>, <<0, -1, 1>> >>, << <<-1, 0, 1>>, <<-1, 1, 0>> >>,
    << <<0, -1, 1>>, <<1, -1, 0>> >>, << <<0, -1, 1>>, <<-1, 0, 1>> >>,
    << <<1, -1, 0>>, <<1, 0, -1>> >>, << <<1, -1, 0>>, <<0, -1, 1>> >> }

\* keys of Board.q_labels and Board.r_labels: range(-5, 6)
LabelRange == -5..5

q_labels(q) == <<"A", "B", "C", "D", "E", "F", "G", "H", "I", "J", "K">>[q + 6]

r_labels(r) == r + 6

(***************************************************************************)
(* board.py: position map access                                            *)
(***************************************************************************)
\* is_valid_hex without the bound on s
is_valid_hex_NoSBound(h) ==
  /\ h[1] + h[2] + h[3] = 0
  /\ ~(Abs(h[1]) > BOARD_RADIUS \/ Abs(h[2]) > BOARD_RADIUS)

is_valid_hex(h) ==
  /\ h[1] + h[2] + h[3] = 0
  /\ ~(Abs(h[1]) > BOARD_RADIUS \/ Abs(h[2]) > BOARD_RADIUS \/ Abs(h[3]) > BOARD_RADIUS)
  /\ ~(Max3(Abs(h[1]), Abs(h[2]), Abs(h[3])) > BOARD_RADIUS)

is_occupied(b, h) == h \in DOMAIN b

get_piece(b, h) == IF h \in DOMAIN b THEN b[h] ELSE NoneVal

InitialLayout ==
  { <<"B", "white", <<0, -5, 5>>>>, <<"B", "white", <<0, -4, 4>>>>,
    <<"B", "white", <<0, -3, 3>>>>,
    <<"Q", "white", <<-1, -4, 5>>>>, <<"N", "white", <<-2, -3, 5>>>>,
    <<"R", "white", <<-3, -2, 5>>>>,
    <<"K", "white", <<1, -5, 4>>>>, <<"N", "white", <<2, -5, 3>>>>,
    <<"R", "white", <<3, -5, 2>>>>,
    <<"P", "white", <<-4, -1, 5>>>>, <<"P", "white", <<-3, -1, 4>>>>,
    <<"P", "white", <<-2, -1, 3>>>>, <<"P", "white", <<-1, -1, 2>>>>,
    <<"P", "white", <<0, -1, 1>>>>, <<"P", "white", <<1, -2, 1>>>>,
    <<"P", "white", <<2, -3, 1>>>>, <<"P", "white", <<3, -4, 1>>>>,
    <<"P", "white", <<4, -5, 1>>>>,
    <<"B", "black", <<0, 5, -5>>>>, <<"B", "black", <<0, 4, -4>>>>,
    <<"B", "black", <<0, 3, -3>>>>,
    <<"Q", "black", <<-1, 5, -4>>>>, <<"N", "black", <<-2, 5, -3>>>>,
    <<"R", "black", <<-3, 5, -2>>>>,
    <<"K", "black", <<1, 4, -5>>>>, <<"N", "black", <<2, 3, -5>>>>,
    <<"R", "black", <<3, 2, -5>>>>,
    <<"P", "black", <<-4, 5, -1>>>>, <<"P", "black", <<-3, 4, -1>>>>,
    <<"P", "black", <<-2, 3, -1>>>>, <<"P", "black", <<-1, 2, -1>>>>,
    <<"P", "black", <<0, 1, -1>>>>, <<"P", "black", <<1, 1, -2>>>>,
    <<"P", "black", <<2, 1, -3>>>>, <<"P", "black", <<3, 1, -4>>>>,
    <<"P", "black", <<4, 1, -5>>>> }

\* the keys of the dict literal of setup_board, in the order written
InitialKeys ==
  << <<0, -5, 5>>, <<0, -4, 4>>, <<0, -3, 3>>,
     <<-1, -4, 5>>, <<-2, -3, 5>>, <<-3, -2, 5>>,
     <<1, -5, 4>>, <<2, -5, 3>>, <<3, -5, 2>>,
     <<-4, -1, 5>>, <<-3, -1, 4>>, <<-2, -1, 3>>, <<-1, -1, 2>>, <<0, -1, 1>>,
     <<1, -2, 1>>, <<2, -3, 1>>, <<3, -4, 1>>, <<4, -5, 1>>,
     <<0, 5, -5>>, <<0, 4, -4>>, <<0, 3, -3>>,
     <<-1, 5, -4>>, <<-2, 5, -3>>, <<-3, 5, -2>>,
     <<1, 4, -5>>, <<2, 3, -5>>, <<3, 2, -5>>,
     <<-4, 5, -1>>, <<-3, 4, -1>>, <<-2, 3, -1>>, <<-1, 2, -1>>, <<0, 1, -1>>,
     <<1, 1, -2>>, <<2, 1, -3>>, <<3, 1, -4>>, <<4, 1, -5>> >>

setup_board ==
  [h \in {e[3] : e \in InitialLayout} |->
     LET e == CHOOSE x \in InitialLayout : x[3] = h IN Piece(e[1], e[2], h)]

\* the king position cache filled at the end of setup_board
InitKingPositions ==
  [c \in {"white", "black"} |->
     CHOOSE h \in DOMAIN setup_board :
        setup_board[h].type = "K" /\ setup_board[h].color = c]

EmptyMap == [h \in {} |-> {}]

NoMove == <<>>

(***************************************************************************)
(* piece_moves.py: pseudo-legal move generators.  Each returns the record   *)
(* [exc, moves]: exc is "None" when the function returns the set moves, or  *)
(* the name of the exception it raises.                                     *)
(***************************************************************************)
Returns(S) == [exc |-> "None", moves |-> S]

Raises(e) == [exc |-> e, moves |-> {}]

\* the while-loop of get_rook_moves / get_bishop_moves along one direction
RECURSIVE SlideMoves(_, _, _, _)
SlideMoves(b, color, current, direction) ==
  LET nxt == HexAdd(current, direction)
      target == get_piece(b, nxt)
  IN  IF ~is_valid_hex(nxt) THEN {}
      ELSE IF target # NoneVal
           THEN (IF target.color # color THEN {nxt} ELSE {})
           ELSE {nxt} \cup SlideMoves(b, color, nxt, direction)

get_rook_moves(b, piece) ==
  Returns(UNION { SlideMoves(b, piece.color, piece.position, HexDir(i)) : i \in 0..5 })

get_bishop_moves(b, piece) ==
  Returns(UNION { SlideMoves(b, piece.color, piece.position, d) : d \in BISHOP_DIRECTIONS })

get_queen_moves(b, piece) ==
  Returns(get_rook_moves(b, piece).moves \cup get_bishop_moves(b, piece).moves)

\* a destination is kept when it is on the board and holds no friendly piece
\* (target_piece is None or target_piece.color != piece.color)
LandingOk(b, piece, move) ==
  /\ is_valid_hex(move)
  /\ (get_piece(b, move) = NoneVal \/ get_piece(b, move).color # piece.color)

\* piece.position + d1 + d1 + d2 for d2 the neighbour of d1 on either side
KnightJumps(p) ==
  UNION { { HexAdd(HexAdd(HexAdd(p, HexDir(d1)), HexDir(d1)), HexDir((d1 + 1) % 6)),
            HexAdd(HexAdd(HexAdd(p, HexDir(d1)), HexDir(d1)), HexDir((d1 + 5) % 6)) } :
          d1 \in 0..5 }

\* get_knight_moves without the test for a friendly piece on the destination
get_knight_moves_OntoFriends(b, piece) ==
  Returns({ m \in KnightJumps(piece.position) : is_valid_hex(m) })

get_knight_moves(b, piece) ==
  Returns({ m \in KnightJumps(piece.position) : LandingOk(b, piece, m) })

\* get_king_moves without the test for a friendly piece on the destination
get_king_moves_OntoFriends(b, piece) ==
  Returns({ m \in { HexAdd(piece.position, HexDir(i)) : i \in 0..5 } : is_valid_hex(m) })

get_king_moves(b, piece) ==
  Returns({ m \in { HexAdd(piece.position, HexDir(i)) : i \in 0..5 } : LandingOk(b, piece, m) })

PawnForward(color) == IF color = "white" THEN HexDir(1) ELSE HexDir(4)

PawnCaptures(color) ==
  IF color = "white" THEN {HexDir(0), HexDir(2)} ELSE {HexDir(3), HexDir(5)}

\* get_pawn_moves without the colour test on the capture coordinates
get_pawn_moves_AnyCapture(b, piece) ==
  LET forward  == PawnForward(piece.color)
      one_step == HexAdd(piece.position, forward)
      two_step == HexAdd(one_step, forward)
      fwd == IF is_valid_hex(one_step) /\ ~is_occupied(b, one_step)
             THEN {one_step} \cup
                  (IF ~piece.has_moved /\ is_valid_hex(two_step) /\ ~is_occupied(b, two_step)
                   THEN {two_step} ELSE {})
             ELSE {}
      caps == { HexAdd(piece.position, d) : d \in PawnCaptures(piece.color) }
      deref == \E c \in caps : is_valid_hex(c) /\ is_occupied(b, c) /\ b[c] = NoneVal
  IN  IF deref THEN Raises("AttributeError")
      ELSE Returns(fwd \cup { c \in caps : is_valid_hex(c) /\ is_occupied(b, c) })

get_pawn_moves(b, piece) ==
  LET forward  == PawnForward(piece.color)
      one_step == HexAdd(piece.position, forward)
      two_step == HexAdd(one_step, forward)
      fwd == IF is_valid_hex(one_step) /\ ~is_occupied(b, one_step)
             THEN {one_step} \cup
                  (IF ~piece.has_moved /\ is_valid_hex(two_step) /\ ~is_occupied(b, two_step)
                   THEN {two_step} ELSE {})
             ELSE {}
      caps == { HexAdd(piece.position, d) : d \in PawnCaptures(piece.color) }
      \* board.get_piece(capture_move).color on a key that is mapped to None
      deref == \E c \in caps : is_valid_hex(c) /\ is_occupied(b, c) /\ b[c] = NoneVal
  IN  IF deref THEN Raises("AttributeError")
      ELSE Returns(fwd \cup { c \in caps : is_valid_hex(c) /\ is_occupied(b, c)
                                            /\ b[c].color # piece.color })

\* the move_functions dispatch table of Board.get_possible_moves
move_functions(b, piece) ==
  CASE piece.type = "N" -> get_knight_moves(b, piece)
    [] piece.type = "R" -> get_rook_moves(b, piece)
    [] piece.type = "B" -> get_bishop_moves(b, piece)
    [] piece.type = "Q" -> get_queen_moves(b, piece)
    [] piece.type = "K" -> get_king_moves(b, piece)
    [] piece.type = "P" -> get_pawn_moves(b, piece)

(***************************************************************************)
(* board.py: the Board object as a record, so that deepcopy(self) is the    *)
(* record itself and a simulated move is an operator on it.                 *)
(***************************************************************************)
Self ==
  [board |-> board, board_keys |-> board_keys, king_positions |-> king_positions,
   current_player |-> current_player, move_number |-> move_number,
   moves_history |-> moves_history, move_cache |-> move_cache,
   last_move |-> last_move]

deepcopy(st) == st

\* self.board[end_hex] = self.board.pop(start_hex).move(end_hex)
UpdateBoard(b, piece, start_hex, end_hex) ==
  [h \in (DOMAIN b \ {start_hex}) \cup {end_hex} |->
     IF h = end_hex THEN PieceMove(piece, end_hex) ELSE b[h]]

\* the key order of the dict after pop(start_hex) and the assignment to
\* end_hex: a key already present keeps its place, a new key goes last
UpdateKeys(keys, start_hex, end_hex) ==
  LET popped == SelectSeq(keys, LAMBDA k : k # start_hex)
  IN  IF \E i \in 1..Len(popped) : popped[i] = end_hex
      THEN popped
      ELSE Append(popped, end_hex)

\* format_move: <<piece letter, capture marker, column letter, row label>>
format_move(b, piece, start_hex, end_hex) ==
  << IF piece.type # "P" THEN piece.type ELSE "",
     IF is_occupied(b, end_hex) THEN "x" ELSE "",
     q_labels(end_hex[1]), r_labels(end_hex[2]) >>

PromotionRank(piece, end_hex) ==
  /\ piece.type = "P"
  /\ \/ piece.color = "white" /\ end_hex[2] = BOARD_RADIUS
     \/ piece.color = "black" /\ end_hex[2] = -BOARD_RADIUS

\* Board.move_piece on the Board st.  Result: [st, exc, at]; exc = "None" when
\* the call returns, else the exception raised and the statement raising it.
move_piece(st, start_hex, end_hex) ==
  LET piece == get_piece(st.board, start_hex) IN
  IF piece = NoneVal
  THEN [st |-> st, exc |-> "AttributeError", at |-> "piece.color"]
  ELSE IF piece.color # st.current_player
  THEN [st |-> st, exc |-> "ValueError", at |-> "turn"]
  ELSE
    LET b1  == UpdateBoard(st.board, piece, start_hex, end_hex)
        k1  == IF piece.type = "K"
               THEN [st.king_positions EXCEPT ![piece.color] = end_hex]
               ELSE st.king_positions
        st1 == [st EXCEPT !.board = b1, !.king_positions = k1,
                          !.board_keys = UpdateKeys(@, start_hex, end_hex)]
    IN
    IF end_hex[1] \notin LabelRange \/ end_hex[2] \notin LabelRange
    THEN [st |-> st1, exc |-> "KeyError", at |-> "format_move"]
    ELSE
      LET move_str == format_move(b1, piece, start_hex, end_hex)
          st2 == [st1 EXCEPT
                    !.moves_history = Append(@, <<start_hex, end_hex, move_str>>),
                    !.move_number = IF st.current_player = "black" THEN @ + 1 ELSE @,
                    !.current_player = Opponent(st.current_player)]
      IN
      IF PromotionRank(piece, end_hex)
      THEN \* self.promote_pawn: Board has no attribute promote_pawn
           [st |-> st2, exc |-> "AttributeError", at |-> "self.promote_pawn"]
      ELSE [st |-> [st2 EXCEPT !.move_cache = EmptyMap,
                               !.last_move = <<start_hex, end_hex>>],
            exc |-> "None", at |-> "return"]

(***************************************************************************)
(* board.py: check detection                                                *)
(***************************************************************************)
\* one of the while-loops of is_check: walk from current along direction; the
\* first piece met decides, a key mapped to None does not stop the walk
RECURSIVE SlideAttack(_, _, _, _, _)
SlideAttack(b, opponent, current, direction, types) ==
  LET nxt == HexAdd(current, direction)
      piece == get_piece(b, nxt)
  IN  IF ~is_valid_hex(nxt) THEN FALSE
      ELSE IF piece # NoneVal
           THEN piece.color = opponent /\ piece.type \in types
           ELSE SlideAttack(b, opponent, nxt, direction, types)

HoldsEnemy(b, h, t, opponent) ==
  /\ is_valid_hex(h)
  /\ get_piece(b, h) # NoneVal
  /\ get_piece(b, h).type = t
  /\ get_piece(b, h).color = opponent

is_check(st, color) ==
  LET king_pos == st.king_positions[color]
      opponent == Opponent(color)
  IN  IF king_pos = NoMove THEN FALSE
      ELSE
        \/ \E i \in 0..5 : HoldsEnemy(st.board, HexAdd(king_pos, HexDir(i)), "K", opponent)
        \/ \E d \in PAWN_ATTACKS(opponent) :
              HoldsEnemy(st.board, HexAdd(king_pos, d), "P", opponent)
        \/ \E p \in KNIGHT_PATTERNS :
              HoldsEnemy(st.board, HexAdd(HexAdd(king_pos, p[1]), p[2]), "N", opponent)
        \/ \E i \in 0..5 :
              SlideAttack(st.board, opponent, king_pos, HexDir(i), {"Q", "R"})
        \/ \E d \in BISHOP_DIRECTIONS :
              SlideAttack(st.board, opponent, king_pos, d, {"Q", "B"})

(***************************************************************************)
(* board.py: legal move enumeration.  Result: [exc, value, st]; st is the   *)
(* Board after the call (only move_cache can differ).                       *)
(***************************************************************************)
\* get_possible_moves simulating on self in place of deepcopy(self): the
\* Board is left as the simulation of a candidate has made it
get_possible_moves_OnSelf(st, hex) ==
  IF hex \in DOMAIN st.move_cache
  THEN [exc |-> "None", value |-> st.move_cache[hex], st |-> st, cached |-> TRUE]
  ELSE
    LET piece == get_piece(st.board, hex) IN
    IF piece = NoneVal \/ piece.color # st.current_player
    THEN [exc |-> "None", value |-> {}, st |-> st, cached |-> FALSE]
    ELSE
      LET all_moves == move_functions(st.board, piece) IN
      IF all_moves.exc # "None"
      THEN [exc |-> all_moves.exc, value |-> {}, st |-> st, cached |-> FALSE]
      ELSE
        LET temp_board(move) == move_piece(st, hex, move) IN
        IF \E move \in all_moves.moves : temp_board(move).exc # "None"
        THEN [exc |-> (CHOOSE e \in { temp_board(move).exc : move \in all_moves.moves } : e # "None"),
              value |-> {}, st |-> st, cached |-> FALSE]
        ELSE
          LET legal_moves == { move \in all_moves.moves :
                                 ~is_check(temp_board(move).st, st.current_player) }
              left == IF all_moves.moves = {} THEN st
                      ELSE temp_board(CHOOSE move \in all_moves.moves : TRUE).st
          IN  [exc |-> "None", value |-> legal_moves,
               st |-> [left EXCEPT !.move_cache =
                         [h \in DOMAIN st.move_cache \cup {hex} |->
                            IF h = hex THEN legal_moves ELSE st.move_cache[h]]],
               cached |-> FALSE]

get_possible_moves(st, hex) ==
  IF hex \in DOMAIN st.move_cache
  THEN [exc |-> "None", value |-> st.move_cache[hex], st |-> st, cached |-> TRUE]
  ELSE
    LET piece == get_piece(st.board, hex) IN
    IF piece = NoneVal \/ piece.color # st.current_player
    THEN [exc |-> "None", value |-> {}, st |-> st, cached |-> FALSE]
    ELSE
      LET all_moves == move_functions(st.board, piece) IN
      IF all_moves.exc # "None"
      THEN [exc |-> all_moves.exc, value |-> {}, st |-> st, cached |-> FALSE]
      ELSE
        LET temp_board(move) == move_piece(deepcopy(st), hex, move) IN
        IF \E move \in all_moves.moves : temp_board(move).exc # "None"
        THEN [exc |-> (CHOOSE e \in { temp_board(move).exc : move \in all_moves.moves } : e # "None"),
              value |-> {}, st |-> st, cached |-> FALSE]
        ELSE
          LET legal_moves == { move \in all_moves.moves :
                                 ~is_check(temp_board(move).st, st.current_player) }
          IN  [exc |-> "None", value |-> legal_moves,
               st |-> [st EXCEPT !.move_cache =
                         [h \in DOMAIN st.move_cache \cup {hex} |->
                            IF h = hex THEN legal_moves ELSE st.move_cache[h]]],
               cached |-> FALSE]

(***************************************************************************)
(* board.py: is_checkmate.  Result: [exc, value, st]; st is the Board after *)
(* the call: its get_possible_moves calls fill the move cache.              *)
(***************************************************************************)
\* the for-loop over self.board.items() from the i-th item on.  The moves of
\* one piece are tried in the iteration order of a Python set; that order is
\* immaterial here: a simulated move_piece raises for the turn (for every
\* move alike) or for a destination that get_possible_moves has already
\* simulated without an exception.
RECURSIVE CheckmateLoop(_, _, _)
CheckmateLoop(st, color, i) ==
  IF i > Len(st.board_keys)
  THEN [exc |-> "None", value |-> TRUE, st |-> st]
  ELSE
    LET hex == st.board_keys[i]
        piece == st.board[hex]
    IN
    IF piece = NoneVal
    THEN [exc |-> "AttributeError", value |-> FALSE, st |-> st]
    ELSE IF piece.color # color
    THEN CheckmateLoop(st, color, i + 1)
    ELSE
      LET r == get_possible_moves(st, hex)
          temp_board(move) == move_piece(deepcopy(r.st), piece.position, move)
      IN
      IF r.exc # "None"
      THEN [exc |-> r.exc, value |-> FALSE, st |-> r.st]
      ELSE IF \E move \in r.value : temp_board(move).exc # "None"
      THEN [exc |-> (CHOOSE e \in { temp_board(move).exc : move \in r.value } : e # "None"),
            value |-> FALSE, st |-> r.st]
      ELSE IF \E move \in r.value : ~is_check(temp_board(move).st, color)
      THEN [exc |-> "None", value |-> FALSE, st |-> r.st]
      ELSE CheckmateLoop(r.st, color, i + 1)

is_checkmate(st, color) ==
  IF ~is_check(st, color)
  THEN [exc |-> "None", value |-> FALSE, st |-> st]
  ELSE CheckmateLoop(st, color, 1)

(***************************************************************************)
(* board.py: evaluate_position_for.  Scores are counted in hundredths, so   *)
(* that CENTER_BONUS 0.1 is 10, MOBILITY_BONUS 0.05 is 5 and                *)
(* KING_EXPOSURE_PENALTY 0.5 is 50; every score is a whole number of        *)
(* hundredths, which round(score, 2) leaves as it is.  Result:              *)
(* [exc, value, st]; st is the Board after the call, whose                  *)
(* get_possible_moves calls fill the move cache.                            *)
(***************************************************************************)
PIECE_VALUES(type) ==
  100 * (CASE type = "P" -> 1 [] type = "N" -> 3 [] type = "B" -> 3
           [] type = "R" -> 5 [] type = "Q" -> 9 [] type = "K" -> 1000)

CENTER_BONUS == 10

MOBILITY_BONUS == 5

KING_EXPOSURE_PENALTY == 50

\* abs(hex - center) for center = Hex(0, 0, 0)
distance_to_center(hex) == (Abs(hex[1]) + Abs(hex[2]) + Abs(hex[3])) \div 2

friendly_pieces_nearby(b, hex, color) ==
  Cardinality({ i \in 0..5 :
     /\ is_valid_hex(HexAdd(hex, HexDir(i)))
     /\ get_piece(b, HexAdd(hex, HexDir(i))) # NoneVal
     /\ get_piece(b, HexAdd(hex, HexDir(i))).color = color })

\* value + center_bonus + mobility_bonus - king_exposure_penalty of the piece
\* on hex, for n legal moves
PieceScore(b, hex, n) ==
  PIECE_VALUES(b[hex].type)
  + (BOARD_RADIUS - distance_to_center(hex)) * CENTER_BONUS
  + n * MOBILITY_BONUS
  - (IF b[hex].type = "K"
     THEN (6 - friendly_pieces_nearby(b, hex, b[hex].color)) * KING_EXPOSURE_PENALTY
     ELSE 0)

\* the for-loop of evaluate_position_for from the i-th item on: it computes
\* the terms of each piece and keeps those of the last one only
RECURSIVE EvaluateLoop(_, _)
EvaluateLoop(st, i) ==
  LET hex == st.board_keys[i] IN
  IF st.board[hex] = NoneVal
  THEN [exc |-> "AttributeError", value |-> 0, st |-> st]
  ELSE
    CHOOSE result \in
      { IF r.exc # "None"
        THEN [exc |-> r.exc, value |-> 0, st |-> r.st]
        ELSE IF i = Len(st.board_keys)
        THEN [exc |-> "None",
              value |-> PieceScore(st.board, hex, Cardinality(r.value)),
              st |-> r.st]
        ELSE EvaluateLoop(r.st, i + 1)
        : r \in { get_possible_moves(st, hex) } } : TRUE

\* the statements after the loop are outside it: piece_score is that of the
\* last item of self.board.items(), added or subtracted once
evaluate_position_for(st, player_color) ==
  IF Len(st.board_keys) = 0
  THEN [exc |-> "UnboundLocalError", value |-> 0, st |-> st]
  ELSE
    LET r == EvaluateLoop(st, 1)
        piece == st.board[st.board_keys[Len(st.board_keys)]]
    IN  IF r.exc # "None" THEN r
        ELSE [r EXCEPT !.value = IF piece.color = player_color THEN @ ELSE -@]

(***************************************************************************)
(* piece_moves.py: promote_pawn(board, hex, new_type)                       *)
(***************************************************************************)
\* promote_pawn with King admitted as a promotion type
promote_pawn_KingAllowed(st, hex, new_type) ==
  LET piece == get_piece(st.board, hex) IN
  IF piece = NoneVal \/ piece.type # "P"
  THEN [st |-> st, exc |-> "ValueError", at |-> "No pawn to promote at given hex"]
  ELSE IF new_type \notin {"R", "N", "B", "Q", "K"}
  THEN [st |-> st, exc |-> "ValueError", at |-> "Invalid promotion type"]
  ELSE [st |-> [st EXCEPT !.board = [@ EXCEPT ![hex] = Piece(new_type, piece.color, hex)]],
        exc |-> "None", at |-> "return"]

promote_pawn(st, hex, new_type) ==
  LET piece == get_piece(st.board, hex) IN
  IF piece = NoneVal \/ piece.type # "P"
  THEN [st |-> st, exc |-> "ValueError", at |-> "No pawn to promote at given hex"]
  ELSE IF new_type \notin {"R", "N", "B", "Q"}
  THEN [st |-> st, exc |-> "ValueError", at |-> "Invalid promotion type"]
  ELSE [st |-> [st EXCEPT !.board = [@ EXCEPT ![hex] = Piece(new_type, piece.color, hex)]],
        exc |-> "None", at |-> "return"]

(***************************************************************************)
(* Inputs of the calls.  Callers (play.py, pygame_main.py) pass any Hex to  *)
(* move_piece; the samples below hold kings, pawns, a bishop, a queen, an   *)
(* empty coordinate, promotion ranks and a Hex outside the label tables.    *)
(***************************************************************************)
WK  == <<1, -5, 4>>
WB  == <<0, -4, 4>>
WP  == <<1, -2, 1>>
BP1 == <<-3, 4, -1>>
BP2 == <<0, 1, -1>>
Centre == <<0, 0, 0>>

MoveEnds(start_hex) ==
  CASE start_hex = WK  -> { <<-3, 0, 3>>, <<1, -4, 3>> }
    [] start_hex = WB  -> { <<-3, 2, 1>>, <<1, -3, 2>> }
    [] start_hex = WP  -> { <<1, -1, 0>>, <<-5, 5, 0>>, <<6, -3, -3>> }
    [] start_hex = BP1 -> { <<-3, 3, 0>>, <<5, -5, 0>> }
    [] start_hex = BP2 -> { Centre, <<0, -5, 5>> }
    [] OTHER -> { BP2 }

MoveStarts == { WK, WB, WP, BP1, BP2, Centre }

QueryHexes == { WK, WB, WP, BP1, Centre }

PromoteHexes == { WP, BP1, WB, Centre }

PromoteTypes == { "Q", "N", "K", "P" }

(***************************************************************************)
(* The calls.  ret records the last call that modified the Board: its name, *)
(* arguments, outcome and the Board before it.  A call that leaves the      *)
(* Board as it was (a rejected move_piece or promote_pawn, a query answered *)
(* without a new cache entry) is a stuttering step; what such a call        *)
(* returns in a state is the value of its operator in that state.  In each  *)
(* action r is the outcome of the call, computed once.                      *)
(***************************************************************************)
Call(op, start_hex, end_hex, new_type, exc, at, value, pre) ==
  [op |-> op, start |-> start_hex, end |-> end_hex, new_type |-> new_type,
   exc |-> exc, at |-> at, value |-> value, pre |-> pre]

SetBoard(st) ==
  /\ board' = st.board
  /\ board_keys' = st.board_keys
  /\ king_positions' = st.king_positions
  /\ current_player' = st.current_player
  /\ move_number' = st.move_number
  /\ moves_history' = st.moves_history
  /\ move_cache' = st.move_cache
  /\ last_move' = st.last_move

\* Board.__init__
Init ==
  /\ board = setup_board
  /\ board_keys = InitialKeys
  /\ king_positions = InitKingPositions
  /\ current_player = "white"
  /\ move_number = 1
  /\ moves_history = <<>>
  /\ move_cache = EmptyMap
  /\ last_move = NoMove
  /\ ret = Call("Board", NoMove, NoMove, "", "None", "return", {},
                [board |-> setup_board, board_keys |-> InitialKeys,
                 king_positions |-> InitKingPositions,
                 current_player |-> "white", move_number |-> 1,
                 moves_history |-> <<>>, move_cache |-> EmptyMap,
                 last_move |-> NoMove])
  /\ nOk = 0
  /\ nCalls = 0

\* board.move_piece(start_hex, end_hex)
MovePiece(start_hex, end_hex) ==
  \E r \in { move_piece(Self, start_hex, end_hex) } :
  /\ nCalls < MaxCalls
  /\ SetBoard(r.st)
  /\ ret' = IF r.st # Self
            THEN Call("move_piece", start_hex, end_hex, "", r.exc, r.at, {}, Self)
            ELSE ret
  /\ nOk' = IF r.exc = "None" THEN nOk + 1 ELSE nOk
  /\ nCalls' = IF r.st # Self THEN nCalls + 1 ELSE nCalls

\* board.get_possible_moves(hex)
GetPossibleMoves(hex) ==
  \E r \in { get_possible_moves(Self, hex) } :
  /\ SetBoard(r.st)
  /\ ret' = IF r.st # Self
            THEN Call("get_possible_moves", hex, NoMove, "", r.exc, "return", r.value, Self)
            ELSE ret
  /\ UNCHANGED <<nOk, nCalls>>

\* promote_pawn(board, hex, new_type)
PromotePawn(hex, new_type) ==
  \E r \in { promote_pawn(Self, hex, new_type) } :
  /\ nCalls < MaxCalls
  /\ SetBoard(r.st)
  /\ ret' = IF r.st # Self
            THEN Call("promote_pawn", hex, NoMove, new_type, r.exc, r.at, {}, Self)
            ELSE ret
  /\ nCalls' = IF r.st # Self THEN nCalls + 1 ELSE nCalls
  /\ UNCHANGED nOk

\* board.is_checkmate(board.current_player), called after every move
IsCheckmate ==
  \E r \in { is_checkmate(Self, current_player) } :
  /\ SetBoard(r.st)
  /\ ret' = IF r.st # Self
            THEN Call("is_checkmate", NoMove, NoMove, "", r.exc,
                      IF r.exc # "None" THEN "raise"
                      ELSE IF r.value THEN "return True" ELSE "return False",
                      {}, Self)
            ELSE ret
  /\ UNCHANGED <<nOk, nCalls>>

Next ==
  \/ \E start_hex \in MoveStarts : \E end_hex \in MoveEnds(start_hex) :
        MovePiece(start_hex, end_hex)
  \/ \E hex \in QueryHexes : GetPossibleMoves(hex)
  \/ IsCheckmate
  \/ \E hex \in PromoteHexes : \E new_type \in PromoteTypes : PromotePawn(hex, new_type)

Spec == Init /\ [][Next]_vars

\* the calls of the Board object alone, as play.py and pygame_main.py make them
NextMoves ==
  \/ \E start_hex \in MoveStarts : \E end_hex \in MoveEnds(start_hex) :
        MovePiece(start_hex, end_hex)
  \/ \E hex \in QueryHexes : GetPossibleMoves(hex)
  \/ IsCheckmate

SpecMoves == Init /\ [][NextMoves]_vars

(***************************************************************************)
(* Position evaluation between moves: evaluate_position_for changes the     *)
(* Board through the move cache its get_possible_moves calls fill.          *)
(***************************************************************************)
EvaluatePositionFor(player_color) ==
  \E r \in { evaluate_position_for(Self, player_color) } :
  /\ SetBoard(r.st)
  /\ ret' = IF r.st # Self
            THEN Call("evaluate_position_for", NoMove, NoMove, player_color,
                      r.exc, "return", {}, Self)
            ELSE ret
  /\ UNCHANGED <<nOk, nCalls>>

NextEval ==
  \/ \E start_hex \in MoveStarts : \E end_hex \in MoveEnds(start_hex) :
        MovePiece(start_hex, end_hex)
  \/ \E player_color \in {"white", "black"} : EvaluatePositionFor(player_color)

SpecEval == Init /\ [][NextEval]_vars

\* handle_mouse_button_down twice: the click that selects selected_hex and
\* stores get_possible_moves(selected_hex), then the click on clicked_hex,
\* which moves only when clicked_hex is among the stored moves and the
\* simulated move leaves the mover out of check, and then asks is_checkmate
LegalStarts == { WK, WB, WP, BP1, BP2, <<2, 3, -5>>, <<2, -5, 3>> }

HandleMouseButtonDown(selected_hex) ==
  /\ nCalls < MaxCalls
  /\ is_valid_hex(selected_hex)
  /\ is_occupied(board, selected_hex)
  /\ get_piece(board, selected_hex) # NoneVal
  /\ get_piece(board, selected_hex).color = current_player
  /\ \E possible_moves \in { get_possible_moves(Self, selected_hex) } :
       /\ possible_moves.exc = "None"
       /\ \E clicked_hex \in possible_moves.value :
            /\ is_valid_hex(clicked_hex)
            /\ clicked_hex # selected_hex
            /\ \E temp_board \in { move_piece(deepcopy(possible_moves.st), selected_hex, clicked_hex) } :
                 /\ temp_board.exc = "None"
                 /\ ~is_check(temp_board.st, current_player)
                 /\ \E r \in { move_piece(possible_moves.st, selected_hex, clicked_hex) } :
                      /\ SetBoard(IF r.exc = "None"
                                  THEN is_checkmate(r.st, r.st.current_player).st
                                  ELSE r.st)
                      /\ ret' = Call("move_piece", selected_hex, clicked_hex, "", r.exc, r.at,
                                     possible_moves.value, Self)
                      /\ nOk' = IF r.exc = "None" THEN nOk + 1 ELSE nOk
                      /\ nCalls' = nCalls + 1

NextLegal == \E selected_hex \in LegalStarts : HandleMouseButtonDown(selected_hex)

SpecLegal == Init /\ [][NextLegal]_vars

(***************************************************************************)
(* Reference notions used by the properties.                                *)
(***************************************************************************)
\* the position in which the piece of coordinate x stands on m: x emptied,
\* the piece on m, whatever stood on m removed
ActualMove(st, x, m) ==
  LET p == st.board[x] IN
  [st EXCEPT
     !.board = [h \in (DOMAIN st.board \ {x}) \cup {m} |->
                  IF h = m THEN [p EXCEPT !.position = m, !.has_moved = TRUE]
                  ELSE st.board[h]],
     !.king_positions = IF p.type = "K" THEN [@ EXCEPT ![p.color] = m] ELSE @]

HoldsPieceOf(b, h, color) == get_piece(b, h) # NoneVal /\ get_piece(b, h).color = color

MoveReturned == ret.op = "move_piece" /\ ret.exc = "None"

MoveRaised == ret.op = "move_piece" /\ ret.exc # "None"

\* the piece move_piece was called on
MovedPiece == get_piece(ret.pre.board, ret.start)

(***************************************************************************)
(* C1: after a successful move_piece(start, end), start holds no piece and  *)
(* end holds the piece that stood on start (same type and colour unless it  *)
(* was a promoting pawn), with position = end and has_moved = TRUE.         *)
(***************************************************************************)
C1_MovedPieceStandsOnDestination ==
  MoveReturned =>
    /\ ret.start # ret.end => get_piece(board, ret.start) = NoneVal
    /\ get_piece(board, ret.end) # NoneVal
    /\ get_piece(board, ret.end).color = MovedPiece.color
    /\ \/ get_piece(board, ret.end).type = MovedPiece.type
       \/ PromotionRank(MovedPiece, ret.end)
    /\ get_piece(board, ret.end).position = ret.end
    /\ get_piece(board, ret.end).has_moved

(***************************************************************************)
(* C2: for every coordinate x holding a piece of the current player and     *)
(* every m in get_possible_moves(x), the current player is not in check in  *)
(* the position where the piece has actually moved from x to m.             *)
(***************************************************************************)
C2_LegalMovesKeepKingSafe ==
  \A x \in DOMAIN board :
    HoldsPieceOf(board, x, current_player) =>
      LET r == get_possible_moves(Self, x) IN
      r.exc = "None" =>
        \A m \in r.value : ~is_check(ActualMove(Self, x, m), current_player)

(***************************************************************************)
(* C3: get_possible_moves(x) of a current-player piece is exactly the set   *)
(* of its pseudo-legal destinations d for which the mover is not in check   *)
(* in the position where the piece stands on d; none is missing, a move     *)
(* that blocks the ray of an attacking slider included.                     *)
(***************************************************************************)
C3_LegalMovesAreExactlyTheSafeOnes ==
  \A x \in DOMAIN board :
    HoldsPieceOf(board, x, current_player) =>
      LET r == get_possible_moves(Self, x)
          pseudo == move_functions(board, board[x])
      IN  (r.exc = "None" /\ pseudo.exc = "None") =>
            r.value = { d \in pseudo.moves :
                          ~is_check(ActualMove(Self, x, d), current_player) }

(***************************************************************************)
(* C4: get_possible_moves(hex) returns the empty set when no piece stands   *)
(* on hex or the piece on hex is not the current player's.                  *)
(***************************************************************************)
C4_NoMovesForEmptyOrOpponent ==
  \A hex \in QueryHexes \cup DOMAIN board :
    ~HoldsPieceOf(board, hex, current_player) =>
      /\ get_possible_moves(Self, hex).exc = "None"
      /\ get_possible_moves(Self, hex).value = {}

(***************************************************************************)
(* C5: current_player is white on a new board and flips exactly on the      *)
(* successful move_piece calls: it is white iff their number is even.       *)
(***************************************************************************)
C5_PlayerAlternatesWithSuccessfulMoves ==
  current_player = (IF nOk % 2 = 0 THEN "white" ELSE "black")

(***************************************************************************)
(* C6: after n successful move_piece calls move_number = 1 + n \div 2 and   *)
(* moves_history has n entries.                                             *)
(***************************************************************************)
C6_MoveNumberAndHistoryCountSuccessfulMoves ==
  /\ move_number = 1 + (nOk \div 2)
  /\ Len(moves_history) = nOk

(***************************************************************************)
(* C7: move_piece raises the same error, ValueError, in both rejection      *)
(* cases: start holds a piece of the player not to move, and start holds    *)
(* no piece.                                                                *)
(***************************************************************************)
C7_BothRejectionsRaiseValueError ==
  \A start_hex \in MoveStarts : \A end_hex \in MoveEnds(start_hex) :
    ~HoldsPieceOf(board, start_hex, current_player) =>
      move_piece(Self, start_hex, end_hex).exc = "ValueError"

(***************************************************************************)
(* C8: when a move_piece call raises, the position map, current_player,     *)
(* move_number, moves_history and the king positions are as before the call.*)
(***************************************************************************)
C8_FailedMoveLeavesBoardUnmodified ==
  MoveRaised =>
    /\ board = ret.pre.board
    /\ current_player = ret.pre.current_player
    /\ move_number = ret.pre.move_number
    /\ moves_history = ret.pre.moves_history
    /\ king_positions = ret.pre.king_positions

(***************************************************************************)
(* C9: a move_piece call that moves a white pawn onto r = +radius or a      *)
(* black pawn onto r = -radius returns, and afterwards the destination      *)
(* holds a queen of the pawn's colour, current_player has flipped and the   *)
(* move is in the history.                                                  *)
(***************************************************************************)
C9_PawnOnLastRankBecomesQueen ==
  (ret.op = "move_piece" /\ PromotionRank(MovedPiece, ret.end)) =>
    /\ ret.exc = "None"
    /\ get_piece(board, ret.end).type = "Q"
    /\ get_piece(board, ret.end).color = MovedPiece.color
    /\ current_player = Opponent(ret.pre.current_player)
    /\ Len(moves_history) = Len(ret.pre.moves_history) + 1
    /\ moves_history[Len(moves_history)][1] = ret.start
    /\ moves_history[Len(moves_history)][2] = ret.end

(***************************************************************************)
(* C10: promote_pawn raises the no-pawn error when hex is empty or holds a  *)
(* non-pawn, and the invalid-type error when a pawn is on hex but new_type  *)
(* is not one of R, N, B, Q; in both cases the position map is unchanged.   *)
(***************************************************************************)
NoPawnAt(hex) == get_piece(board, hex) = NoneVal \/ get_piece(board, hex).type # "P"

C10_PromoteRejections ==
  \A hex \in PromoteHexes : \A new_type \in PromoteTypes :
    LET r == promote_pawn(Self, hex, new_type) IN
    /\ NoPawnAt(hex) =>
         /\ r.exc = "ValueError" /\ r.at = "No pawn to promote at given hex"
         /\ r.st.board = board
    /\ (~NoPawnAt(hex) /\ new_type \notin {"R", "N", "B", "Q"}) =>
         /\ r.exc = "ValueError" /\ r.at = "Invalid promotion type"
         /\ r.st.board = board

\* a board on which a move has left an emptied coordinate, a coordinate
\* mapped to None and a pawn: all three rejections of promote_pawn occur
C10_Witness ==
  /\ ret.op = "move_piece"
  /\ \E hex \in PromoteHexes :
        hex \notin DOMAIN board /\ promote_pawn(Self, hex, "Q").exc = "ValueError"
  /\ \E hex \in PromoteHexes :
        /\ hex \in DOMAIN board /\ board[hex].type \in {"B", "None"}
        /\ promote_pawn(Self, hex, "Q").at = "No pawn to promote at given hex"
  /\ \E hex \in PromoteHexes :
        /\ ~NoPawnAt(hex)
        /\ promote_pawn(Self, hex, "K").at = "Invalid promotion type"
        /\ promote_pawn(Self, hex, "P").at = "Invalid promotion type"

(***************************************************************************)
(* C11: a successful promote_pawn(board, hex, new_type) leaves on hex a     *)
(* piece of type new_type, of the pawn's colour, with position = hex and    *)
(* has_moved = TRUE, and leaves every other coordinate of the board as it   *)
(* was.                                                                     *)
(***************************************************************************)
PromoteReturned == ret.op = "promote_pawn" /\ ret.exc = "None"

C11_PromotedPieceHasMoved ==
  PromoteReturned =>
    /\ get_piece(board, ret.start) # NoneVal
    /\ get_piece(board, ret.start).type = ret.new_type
    /\ get_piece(board, ret.start).color = MovedPiece.color
    /\ get_piece(board, ret.start).position = ret.start
    /\ get_piece(board, ret.start).has_moved
    /\ DOMAIN board = DOMAIN ret.pre.board
    /\ \A h \in DOMAIN board \ {ret.start} : board[h] = ret.pre.board[h]

(***************************************************************************)
(* C12: in every state reached by move_piece calls, for each colour         *)
(* king_positions[colour] is null or a coordinate on which the board holds  *)
(* a King of that colour, and no other coordinate holds a King of that      *)
(* colour.                                                                  *)
(***************************************************************************)
KingsOf(b, color) ==
  { h \in DOMAIN b : b[h] # NoneVal /\ b[h].type = "K" /\ b[h].color = color }

C12_KingPositionsPointAtTheKing ==
  \A color \in {"white", "black"} :
    \/ king_positions[color] = NoMove
    \/ KingsOf(board, color) = { king_positions[color] }

(***************************************************************************)
(* C13: every key c of the board is mapped to a piece, never to None, and   *)
(* the position field of that piece is c; is_occupied(c) is true iff        *)
(* get_piece(c) returns a piece located on c.                               *)
(***************************************************************************)
C13_KeysHoldPiecesLocatedThere ==
  /\ \A c \in DOMAIN board : board[c] # NoneVal /\ board[c].position = c
  /\ \A c \in DOMAIN board \cup MoveStarts :
        is_occupied(board, c) <=>
          (get_piece(board, c) # NoneVal /\ get_piece(board, c).position = c)

(***************************************************************************)
(* C14: right after a move_piece or promote_pawn call that changed the      *)
(* board, move_cache is empty; a get_possible_moves(hex) call adds at most  *)
(* the entry of hex and leaves the other entries as they were.              *)
(***************************************************************************)
C14_CacheEmptyAfterBoardChange ==
  /\ (ret.op \in {"move_piece", "promote_pawn"} /\ board # ret.pre.board) =>
        move_cache = EmptyMap
  /\ ret.op = "get_possible_moves" =>
        /\ DOMAIN move_cache \subseteq DOMAIN ret.pre.move_cache \cup {ret.start}
        /\ \A h \in DOMAIN ret.pre.move_cache : move_cache[h] = ret.pre.move_cache[h]

(***************************************************************************)
(* C15: is_check(colour) is false in every state in which the board holds   *)
(* no King of that colour.                                                  *)
(***************************************************************************)
C15_NoKingNoCheck ==
  \A color \in {"white", "black"} :
    KingsOf(board, color) = {} => ~is_check(Self, color)

(***************************************************************************)
(* C16: is_checkmate(colour) returns a boolean: False when is_check(colour) *)
(* is False, and otherwise True iff get_possible_moves is empty on every    *)
(* coordinate holding a piece of that colour.                               *)
(***************************************************************************)
NoLegalMove(color) ==
  \A x \in DOMAIN board :
    HoldsPieceOf(board, x, color) => get_possible_moves(Self, x).value = {}

C16_CheckmateIsCheckWithoutLegalMove ==
  \A color \in {"white", "black"} :
    LET r == is_checkmate(Self, color) IN
    /\ r.exc = "None"
    /\ ~is_check(Self, color) => ~r.value
    /\ is_check(Self, color) => (r.value <=> NoLegalMove(color))

(***************************************************************************)
(* C17: for every rook on the board and each of the 6 primary directions,   *)
(* get_rook_moves returns a coordinate of the ray iff it is on the board,   *)
(* every coordinate of the ray before it is unoccupied, and it is           *)
(* unoccupied or holds an enemy piece; it returns nothing off the 6 rays.   *)
(***************************************************************************)
\* the k-th coordinate of the ray from p in direction d
RayStep(p, d, k) == <<p[1] + k * d[1], p[2] + k * d[2], p[3] + k * d[3]>>

RookRay(b, x, d, k) ==
  /\ is_valid_hex(RayStep(x, d, k))
  /\ \A j \in 1..(k - 1) : ~is_occupied(b, RayStep(x, d, j))
  /\ \/ ~is_occupied(b, RayStep(x, d, k))
     \/ HoldsPieceOf(b, RayStep(x, d, k), Opponent(b[x].color))

C17_RookRayStopsAtFirstPiece ==
  \A x \in DOMAIN board :
    (board[x] # NoneVal /\ board[x].type = "R") =>
      LET moves == get_rook_moves(board, board[x]).moves IN
      /\ \A i \in 0..5 : \A k \in 1..(2 * BOARD_RADIUS) :
            RayStep(x, HexDir(i), k) \in moves <=> RookRay(board, x, HexDir(i), k)
      /\ moves \subseteq { RayStep(x, HexDir(i), k) : i \in 0..5, k \in 1..(2 * BOARD_RADIUS) }

(***************************************************************************)
(* C18: get_pawn_moves offers the two-step destination iff the pawn's       *)
(* has_moved is FALSE and the one-step and two-step coordinates are on the  *)
(* board and unoccupied; after a move_piece call that moved a pawn, the     *)
(* pawn stands on the destination with has_moved = TRUE and its two-step    *)
(* destination is not offered.                                              *)
(***************************************************************************)
TwoStep(piece) ==
  HexAdd(HexAdd(piece.position, PawnForward(piece.color)), PawnForward(piece.color))

TwoStepOpen(b, piece) ==
  LET one_step == HexAdd(piece.position, PawnForward(piece.color)) IN
  /\ ~piece.has_moved
  /\ is_valid_hex(one_step) /\ ~is_occupied(b, one_step)
  /\ is_valid_hex(TwoStep(piece)) /\ ~is_occupied(b, TwoStep(piece))

C18_TwoStepOnlyBeforeFirstMove ==
  /\ \A x \in DOMAIN board :
       (board[x] # NoneVal /\ board[x].type = "P") =>
         LET r == get_pawn_moves(board, board[x]) IN
         r.exc = "None" =>
           (TwoStep(board[x]) \in r.moves <=> TwoStepOpen(board, board[x]))
  /\ (MoveReturned /\ MovedPiece.type = "P") =>
       /\ get_piece(board, ret.end) # NoneVal
       /\ get_piece(board, ret.end).type = "P"
       /\ get_piece(board, ret.end).color = MovedPiece.color
       /\ get_piece(board, ret.end).has_moved
       /\ TwoStep(get_piece(board, ret.end))
            \notin get_pawn_moves(board, get_piece(board, ret.end)).moves

(***************************************************************************)
(* C19: every destination returned by get_pawn_moves for a pawn is either   *)
(* one or two steps straight forward (r + 1, r + 2 for White; r - 1, r - 2  *)
(* for Black) onto an unoccupied coordinate, or one of the two forward      *)
(* diagonals holding an enemy piece.  Checked on every reachable board and  *)
(* on each board obtained from it by standing one more piece next to the    *)
(* pawn.                                                                    *)
(***************************************************************************)
ForwardSteps(p, color) ==
  IF color = "white"
  THEN { <<p[1], p[2] + 1, p[3] - 1>>, <<p[1], p[2] + 2, p[3] - 2>> }
  ELSE { <<p[1], p[2] - 1, p[3] + 1>>, <<p[1], p[2] - 2, p[3] + 2>> }

ForwardDiagonals(p, color) ==
  IF color = "white"
  THEN { <<p[1] + 1, p[2], p[3] - 1>>, <<p[1] - 1, p[2] + 1, p[3]>> }
  ELSE { <<p[1] - 1, p[2], p[3] + 1>>, <<p[1] + 1, p[2] - 1, p[3]>> }

\* the board b with a pawn of the given colour standing on c
Place(b, c, color) ==
  [h \in DOMAIN b \cup {c} |-> IF h = c THEN Piece("P", color, c) ELSE b[h]]

\* the coordinates next to the pawn on x on which one more pawn is stood
PawnCells(x) ==
  { h \in ForwardSteps(x, board[x].color) \cup ForwardDiagonals(x, board[x].color) :
      is_valid_hex(h) }

PawnMoveOk(b, x, m) ==
  \/ m \in ForwardSteps(x, b[x].color) /\ ~is_occupied(b, m)
  \/ m \in ForwardDiagonals(x, b[x].color) /\ HoldsPieceOf(b, m, Opponent(b[x].color))

PawnMovesOk(b, x) == \A m \in get_pawn_moves(b, b[x]).moves : PawnMoveOk(b, x, m)

C19_PawnMovesForwardCapturesDiagonally ==
  \A x \in DOMAIN board :
    (board[x] # NoneVal /\ board[x].type = "P") =>
      /\ PawnMovesOk(board, x)
      /\ \A c \in PawnCells(x) : \A color \in {"white", "black"} :
            \A b \in { Place(board, c, color) } : PawnMovesOk(b, x)

\* after a move: a pawn that is offered its forward steps and, with an enemy
\* pawn stood on a forward diagonal, that capture; a pawn whose forward
\* coordinate is occupied and not offered; a pawn with a friendly piece on a
\* forward diagonal that is not offered
C19_Witness ==
  /\ ret.op = "move_piece"
  /\ \E x \in DOMAIN board :
       /\ board[x] # NoneVal /\ board[x].type = "P"
       /\ ForwardSteps(x, board[x].color) \subseteq get_pawn_moves(board, board[x]).moves
       /\ \E m \in PawnCells(x) \cap ForwardDiagonals(x, board[x].color) :
             /\ ~is_occupied(board, m)
             /\ \E b \in { Place(board, m, Opponent(board[x].color)) } :
                   m \in get_pawn_moves(b, b[x]).moves
  /\ \E x \in DOMAIN board :
       /\ board[x] # NoneVal /\ board[x].type = "P"
       /\ get_pawn_moves(board, board[x]).exc = "None"
       /\ \E m \in ForwardSteps(x, board[x].color) :
             is_occupied(board, m) /\ m \notin get_pawn_moves(board, board[x]).moves
  /\ \E x \in DOMAIN board :
       /\ board[x] # NoneVal /\ board[x].type = "P"
       /\ \E m \in ForwardDiagonals(x, board[x].color) :
             /\ HoldsPieceOf(board, m, board[x].color)
             /\ m \notin get_pawn_moves(board, board[x]).moves

(***************************************************************************)
(* C20: on the initial board with White to move, get_possible_moves of the  *)
(* white king's coordinate (1,-5,4) is exactly the set of its six           *)
(* neighbours in the primary directions that are on the board and hold no   *)
(* white piece.                                                             *)
(***************************************************************************)
Neighbours(p) ==
  { <<p[1] + 1, p[2], p[3] - 1>>, <<p[1], p[2] + 1, p[3] - 1>>,
    <<p[1] - 1, p[2] + 1, p[3]>>, <<p[1] - 1, p[2], p[3] + 1>>,
    <<p[1], p[2] - 1, p[3] + 1>>, <<p[1] + 1, p[2] - 1, p[3]>> }

OnInitialBoard == board = setup_board /\ current_player = "white"

C20_InitialKingMoves ==
  OnInitialBoard =>
    /\ get_possible_moves(Self, WK).exc = "None"
    /\ get_possible_moves(Self, WK).value =
         { h \in Neighbours(WK) : is_valid_hex(h) /\ ~HoldsPieceOf(board, h, "white") }

\* get_possible_moves((1,-5,4)) has been called on the initial board and has
\* returned the one free neighbour; three neighbours hold white pieces and
\* two are off the board
C20_Witness ==
  /\ OnInitialBoard
  /\ ret.op = "get_possible_moves" /\ ret.start = WK /\ ret.exc = "None"
  /\ ret.value = { <<1, -4, 3>> }
  /\ move_cache[WK] = ret.value
  /\ Cardinality({ h \in Neighbours(WK) : HoldsPieceOf(board, h, "white") }) = 3
  /\ Cardinality({ h \in Neighbours(WK) : ~is_valid_hex(h) }) = 2

(***************************************************************************)
(* C21: in every state reached by move_piece calls whose destination is     *)
(* taken from get_possible_moves of the start, every key of the board has   *)
(* q + r + s = 0 and max(|q|, |r|, |s|) <= BOARD_RADIUS, and no coordinate  *)
(* holds more than one piece: the keys are pairwise distinct and no two     *)
(* pieces have the same position.                                           *)
(***************************************************************************)
OnBoard(h) ==
  /\ h[1] + h[2] + h[3] = 0
  /\ Max3(Abs(h[1]), Abs(h[2]), Abs(h[3])) <= BOARD_RADIUS

C21_KeysStayOnTheBoard ==
  /\ \A h \in DOMAIN board : OnBoard(h)
  /\ { board_keys[i] : i \in 1..Len(board_keys) } = DOMAIN board
  /\ \A i, j \in 1..Len(board_keys) : board_keys[i] = board_keys[j] => i = j
  /\ \A x, y \in DOMAIN board :
       (board[x] # NoneVal /\ board[y] # NoneVal /\ board[x].position = board[y].position)
         => x = y

\* three moves taken from get_possible_moves have been made, one of them by
\* a knight and one onto a coordinate one step from the rim of the board
C21_Witness ==
  /\ MoveReturned
  /\ ret.end \in ret.value
  /\ nOk >= 3
  /\ \E h \in DOMAIN board \ DOMAIN setup_board :
       Max3(Abs(h[1]), Abs(h[2]), Abs(h[3])) = BOARD_RADIUS - 1
  /\ \E h \in DOMAIN setup_board \ DOMAIN board : setup_board[h].type = "N"

(***************************************************************************)
(* C22: the notation appended to moves_history by a successful              *)
(* move_piece(start, end) starts with the piece letter (empty for a pawn),  *)
(* holds "x" iff end held a piece before the move, and ends with the column *)
(* letter of q and the row label r + 6 of end.                              *)
(***************************************************************************)
C22_CaptureMarkerIffCapture ==
  MoveReturned =>
    LET move_str == moves_history[Len(moves_history)][3] IN
    /\ move_str[1] = (IF MovedPiece.type = "P" THEN "" ELSE MovedPiece.type)
    /\ move_str[2] = "x" <=> get_piece(ret.pre.board, ret.end) # NoneVal
    /\ move_str[3] = <<"A", "B", "C", "D", "E", "F", "G", "H", "I", "J", "K">>[ret.end[1] + 6]
    /\ move_str[4] = ret.end[2] + 6

(***************************************************************************)
(* C23: evaluate_position_for(colour) returns the sum, over all pieces on   *)
(* the board, of value + centre bonus + mobility bonus - king exposure      *)
(* penalty, added for the pieces of colour and subtracted for the others.   *)
(***************************************************************************)
RECURSIVE SumOfPieceScores(_, _)
SumOfPieceScores(color, i) ==
  IF i > Len(board_keys) THEN 0
  ELSE
    LET hex == board_keys[i] IN
    (IF board[hex] = NoneVal THEN 0
     ELSE (IF board[hex].color = color THEN 1 ELSE -1)
          * PieceScore(board, hex, Cardinality(get_possible_moves(Self, hex).value)))
    + SumOfPieceScores(color, i + 1)

C23_EvaluationSumsAllPieces ==
  \A color \in {"white", "black"} :
    /\ evaluate_position_for(Self, color).exc = "None"
    /\ evaluate_position_for(Self, color).value = SumOfPieceScores(color, 1)

(***************************************************************************)
(* C24: move_piece(start_hex, end_hex) changes the board only when end_hex  *)
(* is one of get_possible_moves(start_hex) in the state of the call: a move *)
(* outside the legal set never mutates the board.                           *)
(***************************************************************************)
C24_OnlyLegalMovesChangeTheBoard ==
  (ret.op = "move_piece" /\ ret.pre.board # board) =>
     ret.end \in get_possible_moves(ret.pre, ret.start).value

(***************************************************************************)
(* C25: is_check consults 12 distinct knight offsets from the king, and an  *)
(* enemy knight gives check exactly when the king's coordinate is one of    *)
(* the destinations get_knight_moves produces for that knight.  Checked on  *)
(* every reachable board on which the king stands and is not in check, by   *)
(* standing one enemy knight on a free coordinate near the king.            *)
(***************************************************************************)
\* the board b with a piece of the given type and colour standing on c
Stand(b, type, color, c) ==
  [h \in DOMAIN b \cup {c} |-> IF h = c THEN Piece(type, color, c) ELSE b[h]]

\* the free coordinates of the board within n steps of p
FreeCellsNear(p, n) ==
  { h \in ((p[1] - n)..(p[1] + n)) \X ((p[2] - n)..(p[2] + n)) \X ((p[3] - n)..(p[3] + n)) :
      is_valid_hex(h) /\ ~is_occupied(board, h) }

KingStands(color) ==
  /\ king_positions[color] \in DOMAIN board
  /\ board[king_positions[color]] = Piece("K", color, king_positions[color])

KnightCheckAgrees(color, K) ==
  \A b \in { Stand(board, "N", Opponent(color), K) } :
    is_check([Self EXCEPT !.board = b], color)
      <=> king_positions[color] \in get_knight_moves(b, b[K]).moves

C25_KnightCheckAgreesWithKnightMoves ==
  /\ Cardinality({ HexAdd(p[1], p[2]) : p \in KNIGHT_PATTERNS }) = 12
  /\ \A color \in {"white", "black"} :
       (KingStands(color) /\ ~is_check(Self, color)) =>
          \A K \in FreeCellsNear(king_positions[color], 3) : KnightCheckAgrees(color, K)

(***************************************************************************)
(* C26: an enemy pawn gives check exactly when the king's coordinate is one *)
(* of the capture destinations get_pawn_moves produces for that pawn.       *)
(* Checked on every reachable board on which the king stands and is not in  *)
(* check, by standing one enemy pawn on a coordinate near the king.         *)
(***************************************************************************)
\* the coordinates of the board within n steps of p that hold no king
CellsNear(p, n) ==
  { h \in ((p[1] - n)..(p[1] + n)) \X ((p[2] - n)..(p[2] + n)) \X ((p[3] - n)..(p[3] + n)) :
      /\ is_valid_hex(h)
      /\ h \notin { king_positions["white"], king_positions["black"] }
      /\ ~(h \in DOMAIN board /\ board[h] # NoneVal /\ board[h].type = "K") }

PawnCheckAgrees(color, P) ==
  \A b \in { Stand(board, "P", Opponent(color), P) } :
    is_check([Self EXCEPT !.board = b], color)
      <=> king_positions[color] \in get_pawn_moves(b, b[P]).moves

C26_PawnCheckAgreesWithPawnCaptures ==
  \A color \in {"white", "black"} :
    (KingStands(color) /\ ~is_check(Self, color)) =>
       \A P \in CellsNear(king_positions[color], 2) : PawnCheckAgrees(color, P)

(***************************************************************************)
(* C27: is_check(colour) is true when, along a primary direction from the   *)
(* king, the first occupied coordinate holds an enemy rook or queen, or,    *)
(* along a bishop direction, an enemy bishop or queen; a ray whose first    *)
(* occupied coordinate holds anything else gives no check: apart from the   *)
(* king, pawn and knight patterns, is_check is true only for such a ray.    *)
(***************************************************************************)
\* the k-th coordinate of the ray from p is the first occupied one
FirstOnRay(b, p, d, k) ==
  /\ is_valid_hex(RayStep(p, d, k))
  /\ is_occupied(b, RayStep(p, d, k))
  /\ \A j \in 1..(k - 1) : ~is_occupied(b, RayStep(p, d, j))

SliderFirstOnRay(b, p, d, opponent, types) ==
  \E k \in 1..(2 * BOARD_RADIUS) :
    /\ FirstOnRay(b, p, d, k)
    /\ HoldsPieceOf(b, RayStep(p, d, k), opponent)
    /\ b[RayStep(p, d, k)].type \in types

SlidingCheck(color) ==
  \/ \E i \in 0..5 :
        SliderFirstOnRay(board, king_positions[color], HexDir(i), Opponent(color), {"R", "Q"})
  \/ \E d \in BISHOP_DIRECTIONS :
        SliderFirstOnRay(board, king_positions[color], d, Opponent(color), {"B", "Q"})

\* the checks of is_check that are not along a ray
PatternCheck(color) ==
  \/ \E i \in 0..5 :
        HoldsEnemy(board, HexAdd(king_positions[color], HexDir(i)), "K", Opponent(color))
  \/ \E d \in PAWN_ATTACKS(Opponent(color)) :
        HoldsEnemy(board, HexAdd(king_positions[color], d), "P", Opponent(color))
  \/ \E p \in KNIGHT_PATTERNS :
        HoldsEnemy(board, HexAdd(HexAdd(king_positions[color], p[1]), p[2]), "N", Opponent(color))

C27_SlidingCheckByFirstPieceOnRay ==
  \A color \in {"white", "black"} :
    /\ SlidingCheck(color) => is_check(Self, color)
    /\ (is_check(Self, color) /\ ~PatternCheck(color)) => SlidingCheck(color)

(***************************************************************************)
(* C28 (as stated): for a knight on p, get_knight_moves returns exactly the *)
(* coordinates p + d_i + d_j, d_i a primary direction and d_j one of the    *)
(* two primary directions two steps away from d_i around the hexagon, that  *)
(* are on the board and hold no friendly piece; at most 12 of them.         *)
(* Checked for the knights of every reachable board and for a knight of     *)
(* either colour stood on each free coordinate of it.                       *)
(***************************************************************************)
SumsOfTwoDirections(p) ==
  UNION { { HexAdd(HexAdd(p, HexDir(i)), HexDir((i + 2) % 6)),
            HexAdd(HexAdd(p, HexDir(i)), HexDir((i + 4) % 6)) } : i \in 0..5 }

\* the coordinates of the board, and the free ones among them
AllCells ==
  { h \in (-BOARD_RADIUS..BOARD_RADIUS) \X (-BOARD_RADIUS..BOARD_RADIUS)
             \X (-BOARD_RADIUS..BOARD_RADIUS) : OnBoard(h) }

FreeCells == { h \in AllCells : ~is_occupied(board, h) }

KnightMovesAre(b, x, targets) ==
  \A r \in { get_knight_moves(b, Piece("N", b[x].color, x)) } :
    /\ r.exc = "None"
    /\ r.moves = { m \in targets : OnBoard(m) /\ ~HoldsPieceOf(b, m, b[x].color) }
    /\ Cardinality(r.moves) <= 12

C28_KnightMovesAreSumsOfTwoDirections ==
  /\ \A x \in DOMAIN board :
       (board[x] # NoneVal /\ board[x].type = "N") =>
          KnightMovesAre(board, x, SumsOfTwoDirections(x))
  /\ \A x \in FreeCells : \A color \in {"white", "black"} :
       KnightMovesAre(Stand(board, "N", color, x), x, SumsOfTwoDirections(x))

(***************************************************************************)
(* C28 (amended): for a knight on p, get_knight_moves returns exactly the   *)
(* coordinates p + d_i + d_i + d_j, d_i a primary direction and d_j one of  *)
(* its two neighbours around the hexagon, that are on the board and hold no *)
(* friendly piece; at most 12 of them.  These are the 12 offsets whose      *)
(* coordinates are 1, 2 and 3 in absolute value.                            *)
(***************************************************************************)
KnightOffsets ==
  { d \in (-3..3) \X (-3..3) \X (-3..3) :
      /\ d[1] + d[2] + d[3] = 0
      /\ {Abs(d[1]), Abs(d[2]), Abs(d[3])} = {1, 2, 3} }

TwelveJumps(p) == { HexAdd(p, d) : d \in KnightOffsets }

C28_KnightMovesAreTheTwelveJumps ==
  /\ \A x \in DOMAIN board :
       (board[x] # NoneVal /\ board[x].type = "N") =>
          KnightMovesAre(board, x, TwelveJumps(x))
  /\ \A x \in FreeCells : \A color \in {"white", "black"} :
       KnightMovesAre(Stand(board, "N", color, x), x, TwelveJumps(x))

\* after a move: a knight of the board that is offered a jump and is not
\* offered one onto a friendly piece; a free coordinate from which a knight
\* has all 12 jumps; a free coordinate from which a knight jumps onto an
\* enemy piece and has jumps that leave the board
C28_Witness ==
  /\ MoveReturned
  /\ \E x \in DOMAIN board :
       /\ board[x] # NoneVal /\ board[x].type = "N"
       /\ get_knight_moves(board, board[x]).moves # {}
       /\ \E m \in TwelveJumps(x) :
             /\ HoldsPieceOf(board, m, board[x].color)
             /\ m \notin get_knight_moves(board, board[x]).moves
  /\ \E x \in FreeCells :
       Cardinality(get_knight_moves(Stand(board, "N", "white", x),
                                    Piece("N", "white", x)).moves) = 12
  /\ \E x \in FreeCells :
       /\ \E m \in get_knight_moves(Stand(board, "N", "white", x),
                                    Piece("N", "white", x)).moves :
             HoldsPieceOf(board, m, "black")
       /\ \E m \in TwelveJumps(x) : ~OnBoard(m)

(***************************************************************************)
(* C29: get_possible_moves(hex) leaves the Board as it was (board with its  *)
(* keys and pieces, current_player, move_number, moves_history,             *)
(* _king_positions), except for at most one new _move_cache entry, for hex. *)
(* Stated for the last call that changed anything, and for a call on each   *)
(* of the queried coordinates in every reachable state.                     *)
(***************************************************************************)
OnlyCacheEntryAdded(pre, post, hex) ==
  /\ post.board = pre.board
  /\ post.board_keys = pre.board_keys
  /\ post.king_positions = pre.king_positions
  /\ post.current_player = pre.current_player
  /\ post.move_number = pre.move_number
  /\ post.moves_history = pre.moves_history
  /\ post.last_move = pre.last_move
  /\ DOMAIN pre.move_cache \subseteq DOMAIN post.move_cache
  /\ DOMAIN post.move_cache \subseteq DOMAIN pre.move_cache \cup {hex}
  /\ \A h \in DOMAIN pre.move_cache : post.move_cache[h] = pre.move_cache[h]

C29_GetPossibleMovesOnlyFillsTheCache ==
  /\ ret.op = "get_possible_moves" => OnlyCacheEntryAdded(ret.pre, Self, ret.start)
  /\ \A hex \in QueryHexes :
       \A r \in { get_possible_moves(Self, hex) } : OnlyCacheEntryAdded(Self, r.st, hex)

\* after a move, get_possible_moves has returned a non-empty set of moves,
\* each of which it has simulated, and has added the cache entry of its hex
C29_Witness ==
  /\ nOk >= 1
  /\ ret.op = "get_possible_moves" /\ ret.exc = "None"
  /\ ret.value # {}
  /\ ret.start \notin DOMAIN ret.pre.move_cache
  /\ ret.start \in DOMAIN move_cache /\ move_cache[ret.start] = ret.value
  /\ \A move \in ret.value :
        move_piece(deepcopy(ret.pre), ret.start, move).st.board # ret.pre.board

(***************************************************************************)
(* C30: the move cache is never stale: in every reachable state each entry  *)
(* of _move_cache, which get_possible_moves(hex) returns as it is, equals   *)
(* the set an uncached get_possible_moves(hex) computes in that state.      *)
(***************************************************************************)
FreshMoves(hex) == get_possible_moves([Self EXCEPT !.move_cache = EmptyMap], hex)

C30_CacheNeverStale ==
  \A hex \in DOMAIN move_cache :
    /\ get_possible_moves(Self, hex).cached
    /\ FreshMoves(hex).exc = "None"
    /\ get_possible_moves(Self, hex).value = FreshMoves(hex).value

====
